---- MODULE Spec2Model ----
(***************************************************************************)
(* A model of mcp_feedback_collector/server.py: the FeedbackDialog          *)
(* controller (image list, text field, timeout timer, submit / cancel) and  *)
(* the three tool entry points collect_feedback, pick_image and             *)
(* get_image_info.                                                          *)
(*                                                                          *)
(* Python str values are sequences of Unicode code points and bytes values  *)
(* are sequences of 0..255, so that strip(), lower(), Path.name, b64encode  *)
(* and the f-strings are computed rather than assumed.                      *)
(***************************************************************************)
EXTENDS Integers, Sequences, FiniteSets, TLC

(* ---------------------------------------------------------------- bounds *)
\* Most images the dialog's list may hold before the add actions stop.
MaxImages == 2
\* Most paths one file-picker answer selects.
MaxPick == 2
\* Seconds of wall-clock time the model lets pass while a dialog is up.
MaxTime == 3
\* Largest timeout_seconds a caller passes (the smallest is -1).
MaxTimeout == 2

(* ------------------------------------------------------- string literals *)
\* The placeholder hint of the feedback text field (18 code points, ending "..."):
\* text_widget.setPlaceholderText(...)
PlaceholderText == <<35831, 22312, 27492, 36755, 20837, 24744, 30340, 21453, 39304, 12289, 24314, 35758, 25110, 38382, 39064, 46, 46, 46>>
\* "Image format: "
S_ImageFormat == <<73, 109, 97, 103, 101, 32, 102, 111, 114, 109, 97, 116, 58, 32>>
\* ", size: "
S_Size == <<44, 32, 115, 105, 122, 101, 58, 32>>
\* "Error: Image file not found at "
S_NotFound == <<69, 114, 114, 111, 114, 58, 32, 73, 109, 97, 103, 101, 32, 102, 105, 108, 101, 32, 110, 111, 116, 32, 102, 111, 117, 110, 100, 32, 97, 116, 32>>
\* "Error processing image "
S_Processing == <<69, 114, 114, 111, 114, 32, 112, 114, 111, 99, 101, 115, 115, 105, 110, 103, 32, 105, 109, 97, 103, 101, 32>>
\* "cancelled_by_user"
TAG_Cancelled == <<99, 97, 110, 99, 101, 108, 108, 101, 100, 95, 98, 121, 95, 117, 115, 101, 114>>
\* "no_image_selected_or_error"
TAG_NoImage == <<110, 111, 95, 105, 109, 97, 103, 101, 95, 115, 101, 108, 101, 99, 116, 101, 100, 95, 111, 114, 95, 101, 114, 114, 111, 114>>
\* "error_loading_file"
TAG_ErrorLoading == <<101, 114, 114, 111, 114, 95, 108, 111, 97, 100, 105, 110, 103, 95, 102, 105, 108, 101>>
\* "clipboard_image_"
S_ClipboardPrefix == <<99, 108, 105, 112, 98, 111, 97, 114, 100, 95, 105, 109, 97, 103, 101, 95>>
\* ".png"
S_DotPng == <<46, 112, 110, 103>>
\* "PNG", the format assumed when the decoder names none
S_PNG == <<80, 78, 71>>
\* "png", pick_image's initial img_format
S_png == <<112, 110, 103>>
\* "image", pick_image's initial filename
S_image == <<105, 109, 97, 103, 101>>
\* "None", what an f-string prints for None
S_None == <<78, 111, 110, 101>>
\* "JPEG"
S_JPEG == <<74, 80, 69, 71>>

(* ------------------------------------------------------- str operations *)
\* Code points str.strip() removes: the ASCII whitespace Python's
\* str.isspace() accepts, plus NBSP and the ideographic space.
Whitespace == {9, 10, 11, 12, 13, 28, 29, 30, 31, 32, 133, 160, 12288}

RECURSIVE LStrip(_)
LStrip(s) == IF s # <<>> /\ Head(s) \in Whitespace THEN LStrip(Tail(s)) ELSE s

RECURSIVE RStrip(_)
RStrip(s) ==
    IF s # <<>> /\ s[Len(s)] \in Whitespace
    THEN RStrip(SubSeq(s, 1, Len(s) - 1))
    ELSE s

\* str.strip()
Strip(s) == RStrip(LStrip(s))

\* str.lower() on the ASCII letters the format labels are made of
Lower(s) == [i \in 1..Len(s) |-> IF s[i] \in 65..90 THEN s[i] + 32 ELSE s[i]]

\* str(n) for an integer n >= 0
RECURSIVE IntToStr(_)
IntToStr(n) ==
    IF n < 10 THEN <<48 + n>> ELSE IntToStr(n \div 10) \o <<48 + (n % 10)>>

\* Path(p).name: what follows the last "/" (47)
RECURSIVE PathName(_)
PathName(p) ==
    IF \E i \in 1..Len(p) : p[i] = 47
    THEN PathName(Tail(p))
    ELSE p


(* ----------------------------------------------------------------- base64 *)
\* The URL-safe alphabet of base64.urlsafe_b64encode: "-" and "_" for "+"
\* and "/".
B64Char_urlsafe(i) ==
    IF i < 26 THEN 65 + i
    ELSE IF i < 52 THEN 97 + (i - 26)
    ELSE IF i < 62 THEN 48 + (i - 52)
    ELSE IF i = 62 THEN 45
    ELSE 95

\* The code point of the i-th letter of the standard base64 alphabet
\* "A-Za-z0-9+/".
B64Char(i) ==
    IF i < 26 THEN 65 + i
    ELSE IF i < 52 THEN 97 + (i - 26)
    ELSE IF i < 62 THEN 48 + (i - 52)
    ELSE IF i = 62 THEN 43
    ELSE 47

\* "=" the padding character
B64Pad == 61

\* base64.b64encode(b).decode('utf-8'): three bytes make four letters, a
\* final group of one or two bytes is padded with "=". The output is ASCII,
\* which .decode('utf-8') maps to the same code points.
RECURSIVE B64Encode(_)
B64Encode(b) ==
    IF Len(b) = 0 THEN <<>>
    ELSE IF Len(b) = 1 THEN
        <<B64Char(b[1] \div 4), B64Char((b[1] % 4) * 16), B64Pad, B64Pad>>
    ELSE IF Len(b) = 2 THEN
        <<B64Char(b[1] \div 4),
          B64Char((b[1] % 4) * 16 + (b[2] \div 16)),
          B64Char((b[2] % 16) * 4),
          B64Pad>>
    ELSE
        <<B64Char(b[1] \div 4),
          B64Char((b[1] % 4) * 16 + (b[2] \div 16)),
          B64Char((b[2] % 16) * 4 + (b[3] \div 64)),
          B64Char(b[3] % 64)>>
        \o B64Encode(SubSeq(b, 4, Len(b)))

(* ------------------------------------------- files, clipboard, decoders *)
\* The contents of the files the user can point the tools at. Each is a
\* short stand-in that starts like a file of its kind; their lengths cover
\* every base64 padding.
\* a PNG file: both decoders read it
BytesPng == <<137, 80, 78, 71>>
\* a JPEG file: both decoders read it
BytesJpeg == <<255, 216, 255>>
\* an SVG drawing ("<s"): Qt's image reader loads it, PIL cannot identify it
BytesSvg == <<60, 115>>
\* an image both decoders read, whose PIL decoder names no format
BytesRaw == <<82, 65, 87, 33, 0>>
\* a file that is no image
BytesJunk == <<0>>
\* an empty file
BytesEmpty == <<>>
\* what QImage.save(buffer, "PNG") writes for the clipboard's image
BytesClipboardPng == <<137, 80, 78, 71, 13, 10>>

\* "/t/a.png"
PathPng == <<47, 116, 47, 97, 46, 112, 110, 103>>
\* "/t/b.jpg"
PathJpeg == <<47, 116, 47, 98, 46, 106, 112, 103>>
\* "/t/c.png"
PathSvg == <<47, 116, 47, 99, 46, 112, 110, 103>>
\* "/t/d.png"
PathRaw == <<47, 116, 47, 100, 46, 112, 110, 103>>
\* "/t/e.png"
PathJunk == <<47, 116, 47, 101, 46, 112, 110, 103>>
\* "/t/f.png"
PathEmpty == <<47, 116, 47, 102, 46, 112, 110, 103>>
\* "/t/gone.png": no such file when it is opened
PathGone == <<47, 116, 47, 103, 111, 110, 101, 46, 112, 110, 103>>
\* "/t": a directory
PathDir == <<47, 116>>

Paths ==
    {PathPng, PathJpeg, PathSvg, PathRaw, PathJunk, PathEmpty, PathGone, PathDir}

\* The files the dialog's file picker offers (it lists files, not
\* directories; a listed file may be gone by the time it is opened).
PickerPaths == Paths \ {PathDir, PathEmpty}

\* "[Errno 21] Is a directory"
S_IsADirectory == <<91, 69, 114, 114, 110, 111, 32, 50, 49, 93, 32, 73, 115, 32, 97, 32, 100, 105, 114, 101, 99, 116, 111, 114, 121>>
\* "cannot identify image file"
S_CannotIdentify == <<99, 97, 110, 110, 111, 116, 32, 105, 100, 101, 110, 116, 105, 102, 121, 32, 105, 109, 97, 103, 101, 32, 102, 105, 108, 101>>

\* open(path, "rb").read(): the bytes, or the exception open() raises.
ReadFile(path) ==
    IF path = PathPng THEN [ok |-> TRUE, data |-> BytesPng]
    ELSE IF path = PathJpeg THEN [ok |-> TRUE, data |-> BytesJpeg]
    ELSE IF path = PathSvg THEN [ok |-> TRUE, data |-> BytesSvg]
    ELSE IF path = PathRaw THEN [ok |-> TRUE, data |-> BytesRaw]
    ELSE IF path = PathJunk THEN [ok |-> TRUE, data |-> BytesJunk]
    ELSE IF path = PathEmpty THEN [ok |-> TRUE, data |-> BytesEmpty]
    ELSE IF path = PathDir
        THEN [ok |-> FALSE, exc |-> "IsADirectoryError", msg |-> S_IsADirectory]
    ELSE [ok |-> FALSE, exc |-> "FileNotFoundError", msg |-> <<>>]

\* QPixmap.loadFromData(bytes) followed by "not pixmap.isNull()".
QPixmapLoads(bytes) ==
    bytes \in {BytesPng, BytesJpeg, BytesSvg, BytesRaw, BytesClipboardPng}

\* PIL's Image.open(io.BytesIO(bytes)): the decoded format and size, or the
\* UnidentifiedImageError it raises. has_format is FALSE where .format is
\* None.
PilOpen(bytes) ==
    IF bytes \in {BytesPng, BytesClipboardPng}
        THEN [ok |-> TRUE, has_format |-> TRUE, format |-> S_PNG, w |-> 10, h |-> 20]
    ELSE IF bytes = BytesJpeg
        THEN [ok |-> TRUE, has_format |-> TRUE, format |-> S_JPEG, w |-> 3, h |-> 4]
    ELSE IF bytes = BytesRaw
        THEN [ok |-> TRUE, has_format |-> FALSE, format |-> <<>>, w |-> 1, h |-> 1]
    ELSE [ok |-> FALSE, exc |-> "UnidentifiedImageError", msg |-> S_CannotIdentify]

\* What the system clipboard may hold: no image data, image data that
\* yields a null QImage, or an image.
ClipboardContents == {"no_image", "null_image", "image"}

(* ------------------------------------------------------------ the state *)
VARIABLES
    call,                 \* the tool call in progress: "none" or "collect_feedback"
    ret,                  \* what the finished tool call returned, until the host takes it
    args,                 \* the inputs of that pick_image / get_image_info call
    dialog_state,         \* "none", "Open", "Submitted", "Cancelled", "TimedOut"
    timeout_seconds,      \* self.timeout_seconds
    timeout_timer,        \* self.timeout_timer: "absent", "active", "fired"
    clock,                \* seconds since the dialog was created
    text,                 \* self.text_widget.toPlainText()
    selected_images_data, \* self.selected_images_data
    preview,              \* item widgets (each with a remove button) in the preview
    result,               \* show_dialog_pyside's local list "result"
    prompt,               \* the nested modal prompt awaiting the user's answer
    last                  \* the last image-list handler that ran, with its input

vars ==
    <<call, ret, args, dialog_state, timeout_seconds, timeout_timer, clock,
      text, selected_images_data, preview, result, prompt, last>>

dialog_vars ==
    <<dialog_state, timeout_seconds, timeout_timer, clock, text,
      selected_images_data, preview, result, prompt, last>>

\* What the user may have typed in the feedback text field.
TextInputs ==
    { <<>>,
      <<32, 10>>,
      <<32, 104, 105, 32, 33, 10>>,
      PlaceholderText,
      <<12288>> \o PlaceholderText \o <<10>> }

Timeouts == (0 - 1)..MaxTimeout

NoOp == [op |-> "none", index |-> 0, reply |-> "", before |-> <<>>]

NoRet == [tool |-> "none"]

NoArgs == [tool |-> "none"]

(* ------------------------------------------------ FeedbackDialog: timer *)
\* milliseconds per second: timeout_timer.start(self.timeout_seconds * 1000)
MsPerSecond == 1000

\* __init__ arming the timer for a timeout of zero too.
TimerArmed_at_zero(ts) == ts >= 0

\* __init__: "if self.timeout_seconds > 0:" arms the single-shot timer.
TimerArmed(ts) == ts > 0

\* The armed single-shot timer has run its interval.
TimerDue ==
    /\ timeout_timer = "active"
    /\ clock * MsPerSecond >= timeout_seconds * MsPerSecond

\* Qt delivers timer events while an event loop runs: the dialog's own
\* exec_() until a terminal transition, or the loop of a nested modal prompt.
EventLoopRunning ==
    /\ call = "collect_feedback"
    /\ (dialog_state = "Open" \/ prompt # "none")

\* The main dialog takes user input: it is open and no modal prompt covers it.
Interactive ==
    /\ call = "collect_feedback"
    /\ dialog_state = "Open"
    /\ prompt = "none"

\* on_feedback_submitted that keeps nothing of what is emitted.
on_feedback_submitted_keeps_nothing(res, data) == res

\* show_dialog_pyside's slot on_feedback_submitted(data); data is
\* [none |-> TRUE] for the None that handle_timeout emits.
on_feedback_submitted(res, data) ==
    IF ~data.none THEN res \o data.items ELSE res

\* handle_timeout: emit(None), then reject().
handle_timeout_result(res) == on_feedback_submitted(res, [none |-> TRUE])

\* handle_timeout without its reject(): the dialog stays as it is.
handle_timeout_no_reject == dialog_state

\* handle_timeout's reject(): the dialog closes as timed out.
handle_timeout_state == "TimedOut"

(* ------------------------------------------- FeedbackDialog: image list *)
\* "YYYYmmdd_HHMMSS" of datetime.now(), the dialog being created at
\* 2025-01-01 00:00:00: "20250101_00000" and the second
Timestamp(t) == <<50, 48, 50, 53, 48, 49, 48, 49, 95, 48, 48, 48, 48, 48>> \o IntToStr(t)

\* update_image_preview_pyside: one item widget per listed image, with a
\* remove button bound to its index.
update_image_preview_pyside(images) == Len(images)

\* select_image_file_pyside, the loop over file_paths: a file is appended
\* when it can be read and QPixmap decodes it. The notice shown for a file
\* that is not appended is dismissed within the step.
RECURSIVE AddFiles(_, _)
AddFiles(images, file_paths) ==
    IF file_paths = <<>> THEN images
    ELSE
        LET path == Head(file_paths)
            f == ReadFile(path)
            next ==
                IF f.ok /\ QPixmapLoads(f.data)
                THEN Append(images, [data |-> f.data, filename |-> PathName(path)])
                ELSE images
        IN  AddFiles(next, Tail(file_paths))

\* paste_from_clipboard_pyside: a clipboard image is saved as PNG and
\* appended under a timestamp name; without one a notice is shown and
\* dismissed within the step.
PasteImage(images, clip, now) ==
    IF clip = "image"
    THEN Append(images,
                [data |-> BytesClipboardPng,
                 filename |-> S_ClipboardPrefix \o Timestamp(now) \o S_DotPng])
    ELSE images

\* Python's "del images[index]": a negative index counts from the end; an
\* index out of range raises IndexError and leaves the list as it was.
DelItem(images, index) ==
    LET k == IF index < 0 THEN index + Len(images) ELSE index
    IN  IF k >= 0 /\ k < Len(images)
        THEN [j \in 1..(Len(images) - 1) |->
                 IF j <= k THEN images[j] ELSE images[j + 1]]
        ELSE images

\* remove_image_pyside without the lower bound "0 <= index".
remove_image_no_lower_bound(images, index) ==
    IF index < Len(images) THEN DelItem(images, index) ELSE images

\* remove_image_pyside(index)
remove_image(images, index) ==
    IF 0 <= index /\ index < Len(images) THEN DelItem(images, index) ELSE images

\* clear_all_images_pyside asks for confirmation only when the list is not
\* empty.
ClearAsks(images) == images # <<>>

\* clear_all_images_pyside that clears whatever the reply.
clear_all_images_any_reply(images, reply) == <<>>

\* clear_all_images_pyside once QMessageBox.question has returned reply.
clear_all_images(images, reply) == IF reply = "Yes" THEN <<>> ELSE images

(* ------------------------------------------------ FeedbackDialog: submit *)
\* The text item without the comparison to the placeholder.
FeedbackText_no_placeholder(t) ==
    LET text_content == Strip(t)
    IN  IF text_content # <<>>
        THEN <<[type |-> "str", value |-> text_content]>>
        ELSE <<>>

\* submit_feedback_pyside: the text item, if any.
FeedbackText(t) ==
    LET text_content == Strip(t)
    IN  IF text_content # <<>> /\ text_content # PlaceholderText
        THEN <<[type |-> "str", value |-> text_content]>>
        ELSE <<>>

\* submit_feedback_pyside without the "or \"PNG\"" after pil_image.format: an
\* image whose decoder names no format gets an empty label.
RECURSIVE FeedbackImages_no_fallback(_)
FeedbackImages_no_fallback(images) ==
    IF images = <<>> THEN <<>>
    ELSE
        LET img_dict == Head(images)
            pil_image == PilOpen(img_dict.data)
        IN  (IF pil_image.ok
             THEN <<[type |-> "image",
                     base64_data |-> B64Encode(img_dict.data),
                     format |-> Lower(pil_image.format),
                     filename |-> img_dict.filename]>>
             ELSE <<>>)
            \o FeedbackImages_no_fallback(Tail(images))

\* submit_feedback_pyside: one dictionary per listed image PIL can open; an
\* image it cannot open is reported on stdout and left out.
RECURSIVE FeedbackImages(_)
FeedbackImages(images) ==
    IF images = <<>> THEN <<>>
    ELSE
        LET img_dict == Head(images)
            pil_image == PilOpen(img_dict.data)
        IN  (IF pil_image.ok
             THEN <<[type |-> "image",
                     base64_data |-> B64Encode(img_dict.data),
                     format |-> Lower(IF pil_image.has_format
                                      THEN pil_image.format ELSE S_PNG),
                     filename |-> img_dict.filename]>>
             ELSE <<>>)
            \o FeedbackImages(Tail(images))

\* submit_feedback_pyside: feedback_items, text first and then the images.
submit_feedback_items(t, images) == FeedbackText(t) \o FeedbackImages(images)

(* ---------------------------------------------------- collect_feedback *)
\* show_dialog_pyside's return: the collected list when exec_() ended
\* Accepted, None otherwise.
show_dialog_return(st, res) ==
    IF st = "Submitted"
    THEN [none |-> FALSE, items |-> res]
    ELSE [none |-> TRUE, items |-> <<>>]

\* MCPImage(base64_data=..., format=..., filename=...), with the fields the
\* docstring of pick_image gives for FastMCP's Image.
MCPImage(base64_data, format, filename) ==
    [type |-> "MCPImage", base64_data |-> base64_data, format |-> format,
     filename |-> filename]

\* collect_feedback's loop: a str is passed on, an image dictionary becomes
\* an MCPImage, anything else is reported and dropped.
RECURSIVE ProcessFeedback(_)
ProcessFeedback(items) ==
    IF items = <<>> THEN <<>>
    ELSE
        LET item == Head(items)
        IN  (IF item.type = "str" THEN <<item>>
             ELSE IF item.type = "image"
                 THEN <<MCPImage(item.base64_data, item.format, item.filename)>>
             ELSE <<>>)
            \o ProcessFeedback(Tail(items))

\* collect_feedback that hands show_dialog_pyside's None on to its caller.
collect_feedback_return_none(feedback_data) ==
    IF feedback_data.none THEN [none |-> TRUE, items |-> <<>>]
    ELSE [none |-> FALSE, items |-> ProcessFeedback(feedback_data.items)]

\* collect_feedback after show_dialog_pyside has returned feedback_data.
collect_feedback_return(feedback_data) ==
    IF feedback_data.none THEN [none |-> FALSE, items |-> <<>>]
    ELSE IF feedback_data.items = <<>> THEN [none |-> FALSE, items |-> <<>>]
    ELSE [none |-> FALSE, items |-> ProcessFeedback(feedback_data.items)]

(* ----------------------------------------------------------- pick_image *)
\* pick_image's tail: "if img_bytes:" builds the record, else the
\* "no_image_selected_or_error" sentinel. img is [none |-> TRUE] for None.
PickTail(img, img_format, filename) ==
    IF ~img.none /\ img.data # <<>>
    THEN MCPImage(B64Encode(img.data), Lower(img_format), filename)
    ELSE MCPImage(<<>>, <<>>, TAG_NoImage)

\* pick_image whose except clause does not return: a file that cannot be
\* loaded falls through to the tail.
pick_image_no_early_return(clicked, file_path, clip, now) ==
    IF clicked = "file" THEN
        IF file_path # <<>> THEN
            LET f == ReadFile(file_path)
            IN  IF f.ok /\ PilOpen(f.data).ok
                THEN LET pil_img == PilOpen(f.data)
                     IN  [raised |-> FALSE,
                          value |-> PickTail([none |-> FALSE, data |-> f.data],
                                             IF pil_img.has_format
                                             THEN pil_img.format ELSE S_PNG,
                                             PathName(file_path))]
                ELSE [raised |-> FALSE,
                      value |-> PickTail([none |-> TRUE], S_png,
                                         PathName(file_path))]
        ELSE [raised |-> FALSE,
              value |-> PickTail([none |-> TRUE], S_png, S_image)]
    ELSE IF clicked = "paste" THEN
        IF clip = "image"
        THEN [raised |-> FALSE,
              value |-> PickTail([none |-> FALSE, data |-> BytesClipboardPng],
                                 S_png,
                                 S_ClipboardPrefix \o Timestamp(now) \o S_DotPng)]
        ELSE [raised |-> FALSE,
              value |-> PickTail([none |-> TRUE], S_png, S_image)]
    ELSE [raised |-> FALSE, value |-> MCPImage(<<>>, <<>>, TAG_Cancelled)]

\* pick_image: clicked is the button of the source prompt, file_path the
\* file picker's answer (<<>> when dismissed), clip the clipboard.
pick_image(clicked, file_path, clip, now) ==
    IF clicked = "file" THEN
        IF file_path # <<>> THEN
            LET f == ReadFile(file_path)
            IN  IF f.ok /\ PilOpen(f.data).ok
                THEN LET pil_img == PilOpen(f.data)
                     IN  [raised |-> FALSE,
                          value |-> PickTail([none |-> FALSE, data |-> f.data],
                                             IF pil_img.has_format
                                             THEN pil_img.format ELSE S_PNG,
                                             PathName(file_path))]
                ELSE [raised |-> FALSE,
                      value |-> MCPImage(<<>>, <<>>, TAG_ErrorLoading)]
        ELSE [raised |-> FALSE,
              value |-> PickTail([none |-> TRUE], S_png, S_image)]
    ELSE IF clicked = "paste" THEN
        IF clip = "image"
        THEN [raised |-> FALSE,
              value |-> PickTail([none |-> FALSE, data |-> BytesClipboardPng],
                                 S_png,
                                 S_ClipboardPrefix \o Timestamp(now) \o S_DotPng)]
        ELSE [raised |-> FALSE,
              value |-> PickTail([none |-> TRUE], S_png, S_image)]
    ELSE [raised |-> FALSE, value |-> MCPImage(<<>>, <<>>, TAG_Cancelled)]

(* ------------------------------------------------------- get_image_info *)
\* repr of pil_img.size: "(w, h)"
SizeRepr(w, h) == <<40>> \o IntToStr(w) \o <<44, 32>> \o IntToStr(h) \o <<41>>

\* get_image_info's try block: the string it returns, or the exception
\* raised by open() or by Image.open().
ImageInfoBody(image_path) ==
    LET f == ReadFile(image_path)
    IN  IF ~f.ok THEN [exc |-> f.exc, msg |-> f.msg]
        ELSE LET pil_img == PilOpen(f.data)
             IN  IF ~pil_img.ok THEN [exc |-> pil_img.exc, msg |-> pil_img.msg]
                 ELSE [exc |-> "",
                       value |-> S_ImageFormat
                                 \o (IF pil_img.has_format
                                     THEN pil_img.format ELSE S_None)
                                 \o S_Size \o SizeRepr(pil_img.w, pil_img.h)]

\* The classes "except Exception" catches: every exception the body raises.
IsException(exc) ==
    exc \in {"FileNotFoundError", "IsADirectoryError", "UnidentifiedImageError"}

\* get_image_info with "except Exception" ahead of "except
\* FileNotFoundError".
get_image_info_except_order(image_path) ==
    LET r == ImageInfoBody(image_path)
    IN  IF r.exc = "" THEN [raised |-> FALSE, value |-> r.value]
        ELSE IF IsException(r.exc)
            THEN [raised |-> FALSE,
                  value |-> S_Processing \o image_path \o <<58, 32>> \o r.msg]
        ELSE [raised |-> TRUE, value |-> <<>>]

\* get_image_info: the body under its two except clauses.
get_image_info(image_path) ==
    LET r == ImageInfoBody(image_path)
    IN  IF r.exc = "" THEN [raised |-> FALSE, value |-> r.value]
        ELSE IF r.exc = "FileNotFoundError"
            THEN [raised |-> FALSE, value |-> S_NotFound \o image_path]
        ELSE IF IsException(r.exc)
            THEN [raised |-> FALSE,
                  value |-> S_Processing \o image_path \o <<58, 32>> \o r.msg]
        ELSE [raised |-> TRUE, value |-> <<>>]

(* -------------------------------------------------------------- actions *)
Init ==
    /\ call = "none"
    /\ ret = NoRet
    /\ args = NoArgs
    /\ dialog_state = "none"
    /\ timeout_seconds = 0
    /\ timeout_timer = "absent"
    /\ clock = 0
    /\ text = <<>>
    /\ selected_images_data = <<>>
    /\ preview = 0
    /\ result = <<>>
    /\ prompt = "none"
    /\ last = NoOp

\* No dialog exists: the one of a finished collect_feedback call was local
\* to that call.
NoDialog ==
    /\ dialog_state' = "none"
    /\ timeout_seconds' = 0
    /\ timeout_timer' = "absent"
    /\ clock' = 0
    /\ text' = <<>>
    /\ selected_images_data' = <<>>
    /\ preview' = 0
    /\ result' = <<>>
    /\ prompt' = "none"
    /\ last' = NoOp

\* The host calls collect_feedback(timeout_seconds = ts): FeedbackDialog's
\* __init__ and show_dialog_pyside up to exec_().
CollectFeedbackCall(ts) ==
    /\ call = "none"
    /\ ret = NoRet
    /\ call' = "collect_feedback"
    /\ ret' = NoRet
    /\ args' = NoArgs
    /\ dialog_state' = "Open"
    /\ timeout_seconds' = ts
    /\ timeout_timer' = IF TimerArmed(ts) THEN "active" ELSE "absent"
    /\ clock' = 0
    /\ text' = <<>>
    /\ selected_images_data' = <<>>
    /\ preview' = update_image_preview_pyside(<<>>)
    /\ result' = <<>>
    /\ prompt' = "none"
    /\ last' = NoOp

\* A second passes while the dialog's event loop runs; a due timer fires
\* before more time passes.
Tick ==
    /\ EventLoopRunning
    /\ clock < MaxTime
    /\ ~TimerDue
    /\ clock' = clock + 1
    /\ UNCHANGED <<call, ret, args, dialog_state, timeout_seconds,
                   timeout_timer, text, selected_images_data, preview, result,
                   prompt, last>>

\* The single-shot timer fires: handle_timeout.
TimerFire ==
    /\ EventLoopRunning
    /\ TimerDue
    /\ timeout_timer' = "fired"
    /\ result' = handle_timeout_result(result)
    /\ dialog_state' = handle_timeout_state
    /\ UNCHANGED <<call, ret, args, timeout_seconds, clock, text,
                   selected_images_data, preview, prompt, last>>

\* The user edits the feedback text field.
SetText(t) ==
    /\ Interactive
    /\ text # t
    /\ text' = t
    /\ UNCHANGED <<call, ret, args, dialog_state, timeout_seconds,
                   timeout_timer, clock, selected_images_data, preview, result,
                   prompt, last>>

\* select_image_file_pyside up to QFileDialog.getOpenFileNames, which
\* blocks in a nested event loop.
SelectImageFileOpen ==
    /\ Interactive
    /\ Len(selected_images_data) < MaxImages
    /\ prompt' = "file_picker"
    /\ last' = [op |-> "select_click", index |-> 0, reply |-> "", before |-> <<>>]
    /\ UNCHANGED <<call, ret, args, dialog_state, timeout_seconds,
                   timeout_timer, clock, text, selected_images_data, preview,
                   result>>

\* The file picker returns file_paths and select_image_file_pyside runs on.
SelectImageFileChosen(file_paths) ==
    /\ call = "collect_feedback"
    /\ prompt = "file_picker"
    /\ LET images == AddFiles(selected_images_data, file_paths)
       IN  /\ Len(images) <= MaxImages
           /\ selected_images_data' = images
           /\ preview' = IF file_paths # <<>>
                         THEN update_image_preview_pyside(images)
                         ELSE preview
    /\ prompt' = "none"
    /\ last' = [op |-> "select", index |-> 0, reply |-> "", before |-> <<>>]
    /\ UNCHANGED <<call, ret, args, dialog_state, timeout_seconds,
                   timeout_timer, clock, text, result>>

\* paste_from_clipboard_pyside
PasteFromClipboard(clip) ==
    /\ Interactive
    /\ Len(selected_images_data) < MaxImages
    /\ LET images == PasteImage(selected_images_data, clip, clock)
       IN  /\ selected_images_data' = images
           /\ preview' = IF clip = "image"
                         THEN update_image_preview_pyside(images)
                         ELSE preview
    /\ last' = [op |-> "paste", index |-> 0, reply |-> "", before |-> <<>>]
    /\ UNCHANGED <<call, ret, args, dialog_state, timeout_seconds,
                   timeout_timer, clock, text, result, prompt>>

\* remove_image_pyside(index)
RemoveImage(index) ==
    /\ Interactive
    /\ LET images == remove_image(selected_images_data, index)
       IN  /\ selected_images_data' = images
           /\ preview' = IF 0 <= index /\ index < Len(selected_images_data)
                         THEN update_image_preview_pyside(images)
                         ELSE preview
    /\ last' = [op |-> "remove", index |-> index, reply |-> "",
                before |-> selected_images_data]
    /\ UNCHANGED <<call, ret, args, dialog_state, timeout_seconds,
                   timeout_timer, clock, text, result, prompt>>

\* clear_all_images_pyside up to QMessageBox.question, which blocks in a
\* nested event loop; with an empty list the handler returns at once.
ClearAllClick ==
    /\ Interactive
    /\ prompt' = IF ClearAsks(selected_images_data) THEN "clear_confirm" ELSE "none"
    /\ last' = [op |-> "clear_click", index |-> 0, reply |-> "",
                before |-> selected_images_data]
    /\ UNCHANGED <<call, ret, args, dialog_state, timeout_seconds,
                   timeout_timer, clock, text, selected_images_data, preview,
                   result>>

\* The confirmation returns reply and clear_all_images_pyside runs on.
ClearAllAnswer(reply) ==
    /\ call = "collect_feedback"
    /\ prompt = "clear_confirm"
    /\ LET images == clear_all_images(selected_images_data, reply)
       IN  /\ selected_images_data' = images
           /\ preview' = IF reply = "Yes"
                         THEN update_image_preview_pyside(images)
                         ELSE preview
    /\ prompt' = "none"
    /\ last' = [op |-> "clear_answer", index |-> 0, reply |-> reply,
                before |-> selected_images_data]
    /\ UNCHANGED <<call, ret, args, dialog_state, timeout_seconds,
                   timeout_timer, clock, text, result>>

\* submit_feedback_pyside: emit(feedback_items), then accept().
Submit ==
    /\ Interactive
    /\ result' = on_feedback_submitted(
                     result,
                     [none |-> FALSE,
                      items |-> submit_feedback_items(text, selected_images_data)])
    /\ dialog_state' = "Submitted"
    /\ UNCHANGED <<call, ret, args, timeout_seconds, timeout_timer,
                   clock, text, selected_images_data, preview, prompt, last>>

\* The cancel button or the window's close button: reject().
Cancel ==
    /\ Interactive
    /\ dialog_state' = "Cancelled"
    /\ UNCHANGED <<call, ret, args, timeout_seconds, timeout_timer,
                   clock, text, selected_images_data, preview, result, prompt,
                   last>>

\* exec_() returns once the dialog is closed and no nested prompt is up;
\* show_dialog_pyside and collect_feedback run to their return.
CollectFeedbackReturn ==
    /\ call = "collect_feedback"
    /\ dialog_state # "Open"
    /\ prompt = "none"
    /\ LET r == collect_feedback_return(show_dialog_return(dialog_state, result))
       IN  ret' = [tool |-> "collect_feedback", raised |-> FALSE,
                   none |-> r.none, items |-> r.items]
    /\ call' = "none"
    /\ UNCHANGED <<args, dialog_state, timeout_seconds, timeout_timer,
                   clock, text, selected_images_data, preview, result, prompt,
                   last>>

\* The host calls pick_image(); the user answers its prompts.
PickImageCall(clicked, file_path, clip) ==
    /\ call = "none"
    /\ ret = NoRet
    /\ args' = [tool |-> "pick_image", clicked |-> clicked,
                file_path |-> file_path, clip |-> clip]
    /\ LET r == pick_image(clicked, file_path, clip, 0)
       IN  ret' = [tool |-> "pick_image", raised |-> r.raised, value |-> r.value]
    /\ UNCHANGED <<call, dialog_vars>>

\* The host calls get_image_info(image_path).
GetImageInfoCall(image_path) ==
    /\ call = "none"
    /\ ret = NoRet
    /\ args' = [tool |-> "get_image_info", image_path |-> image_path]
    /\ LET r == get_image_info(image_path)
       IN  ret' = [tool |-> "get_image_info", raised |-> r.raised,
                   value |-> r.value]
    /\ UNCHANGED <<call, dialog_vars>>

\* The host takes the returned value; the dialog, a local of the finished
\* collect_feedback call, is gone.
HostTakesResult ==
    /\ call = "none"
    /\ ret # NoRet
    /\ ret' = NoRet
    /\ args' = NoArgs
    /\ NoDialog
    /\ UNCHANGED call

\* Sequences of at most n members of S.
SeqsUpTo(S, n) == UNION {[1..k -> S] : k \in 0..n}

Next ==
    \/ \E ts \in Timeouts : CollectFeedbackCall(ts)
    \/ Tick
    \/ TimerFire
    \/ \E t \in TextInputs : SetText(t)
    \/ SelectImageFileOpen
    \/ \E file_paths \in SeqsUpTo(PickerPaths, MaxPick) : SelectImageFileChosen(file_paths)
    \/ \E clip \in ClipboardContents : PasteFromClipboard(clip)
    \/ \E index \in (0 - 1)..MaxImages : RemoveImage(index)
    \/ ClearAllClick
    \/ \E reply \in {"Yes", "No"} : ClearAllAnswer(reply)
    \/ Submit
    \/ Cancel
    \/ CollectFeedbackReturn
    \/ \E clicked \in {"file", "paste", "cancel"}, file_path \in (Paths \ {PathDir}) \cup {<<>>},
          clip \in ClipboardContents : PickImageCall(clicked, file_path, clip)
    \/ \E image_path \in Paths : GetImageInfoCall(image_path)
    \/ HostTakesResult

Spec == Init /\ [][Next]_vars

(* =============================================================== claims *)
\* A collect_feedback call has returned and its dialog is still at hand.
Returned == call = "none" /\ ret.tool = "collect_feedback"

\* The text items and the image records of a returned sequence.
TextItems(items) == SelectSeq(items, LAMBDA it : it.type = "str")

ImageItems(items) == SelectSeq(items, LAMBDA it : it.type = "MCPImage")

\* s begins with prefix
StartsWith(s, prefix) ==
    Len(s) >= Len(prefix) /\ SubSeq(s, 1, Len(prefix)) = prefix

\* s occurs in v
Contains(v, s) ==
    \E i \in 1..(Len(v) - Len(s) + 1) : SubSeq(v, i, i + Len(s) - 1) = s

\* The inverse of B64Char: the value of a base64 letter, -1 for a code
\* point that is none.
B64Index(c) ==
    IF c \in 65..90 THEN c - 65
    ELSE IF c \in 97..122 THEN c - 97 + 26
    ELSE IF c \in 48..57 THEN c - 48 + 52
    ELSE IF c = 43 THEN 62
    ELSE IF c = 47 THEN 63
    ELSE 0 - 1

\* base64.b64decode(s), as a caller of the tools applies it to a payload:
\* four letters make three bytes, fewer where the group is padded.
RECURSIVE B64Decode(_)
B64Decode(s) ==
    IF Len(s) < 4 THEN <<>>
    ELSE
        LET i1 == B64Index(s[1])
            i2 == B64Index(s[2])
            b1 == i1 * 4 + (i2 \div 16)
            rest == B64Decode(SubSeq(s, 5, Len(s)))
        IN  IF s[3] = B64Pad THEN <<b1>> \o rest
            ELSE LET i3 == B64Index(s[3])
                     b2 == (i2 % 16) * 16 + (i3 \div 4)
                 IN  IF s[4] = B64Pad THEN <<b1, b2>> \o rest
                     ELSE <<b1, b2, (i3 % 4) * 64 + B64Index(s[4])>> \o rest

\* xs without its element at the 0-based position i
Without(xs, i) == SubSeq(xs, 1, i) \o SubSeq(xs, i + 2, Len(xs))

\* C1: collect_feedback returns a sequence, never None and never an
\* exception; the sequence is empty when the dialog was Cancelled, when it
\* TimedOut, and when it was Submitted with no accepted text (the trimmed
\* text empty or the placeholder) and an empty image list.
C1_EmptyNeverNull ==
    Returned =>
        /\ ~ret.none
        /\ ~ret.raised
        /\ (dialog_state \in {"Cancelled", "TimedOut"} => ret.items = <<>>)
        /\ (/\ dialog_state = "Submitted"
            /\ Strip(text) \in {<<>>, PlaceholderText}
            /\ selected_images_data = <<>>
            => ret.items = <<>>)

\* C1's case: a submit of whitespace-only text and no image has returned.
C1_Witness ==
    /\ Returned
    /\ dialog_state = "Submitted"
    /\ text = <<32, 10>>
    /\ selected_images_data = <<>>
    /\ ret.items = <<>>

\* C2: after a submit, a trimmed text that is non-empty and not the
\* placeholder is returned as exactly one text item, the first element,
\* equal to the trimmed text; otherwise the result holds no text item.
C2_TextItem ==
    (Returned /\ dialog_state = "Submitted") =>
        LET text_content == Strip(text)
            texts == TextItems(ret.items)
        IN  IF text_content # <<>> /\ text_content # PlaceholderText
            THEN /\ Len(texts) = 1
                 /\ ret.items[1] = [type |-> "str", value |-> text_content]
            ELSE texts = <<>>

\* C2's case: " hi !\n" was submitted with an image and came back trimmed,
\* ahead of the image.
C2_Witness ==
    /\ Returned
    /\ dialog_state = "Submitted"
    /\ text = <<32, 104, 105, 32, 33, 10>>
    /\ Len(ret.items) = 2
    /\ ret.items[1] = [type |-> "str", value |-> <<104, 105, 32, 33>>]
    /\ ret.items[2].type = "MCPImage"

\* C3: after a submit, the image records returned are exactly the images
\* of the dialog's list, one record per listed image, in list order, and
\* they follow the text item.
C3_ImagesExactlyListed ==
    (Returned /\ dialog_state = "Submitted") =>
        LET images == ImageItems(ret.items)
            ntext == Len(TextItems(ret.items))
        IN  /\ Len(images) = Len(selected_images_data)
            /\ \A k \in 1..Len(images) :
                   /\ images[k].filename = selected_images_data[k].filename
                   /\ B64Decode(images[k].base64_data) = selected_images_data[k].data
                   /\ ret.items[ntext + k] = images[k]

C5_ClearAll ==
    [][ (last' # last /\ last'.op \in {"clear_click", "clear_answer"}) =>
            /\ text' = text
            /\ dialog_state' = dialog_state
            /\ (last'.op = "clear_click" =>
                    /\ selected_images_data' = selected_images_data
                    /\ prompt' = IF selected_images_data = <<>>
                                 THEN "none" ELSE "clear_confirm")
            /\ (last'.op = "clear_answer" =>
                    /\ prompt = "clear_confirm"
                    /\ selected_images_data' =
                           IF last'.reply = "Yes" THEN <<>> ELSE selected_images_data)
      ]_vars

\* C5's case: a list of two images has been cleared on Yes, the dialog
\* still open and its text kept.
C5_Witness ==
    /\ last.op = "clear_answer"
    /\ last.reply = "Yes"
    /\ Len(last.before) = 2
    /\ selected_images_data = <<>>
    /\ dialog_state = "Open"
    /\ text = PlaceholderText

\* C6: a dialog created with timeout_seconds <= 0 has no timer and is
\* never TimedOut.
C6_NoTimer ==
    (dialog_state # "none" /\ timeout_seconds <= 0) =>
        /\ timeout_timer = "absent"
        /\ dialog_state \in {"Open", "Submitted", "Cancelled"}

\* C6's case: a dialog with timeout 0 is still open, with an image added,
\* after all the time the model lets pass.
C6_Witness ==
    /\ dialog_state = "Open"
    /\ timeout_seconds = 0
    /\ clock = MaxTime
    /\ selected_images_data # <<>>

\* C7: a dialog created with timeout_seconds = T > 0 is not open after
\* more than T seconds: at T seconds an open dialog's timer is pending and
\* fires before more time passes. A dialog is TimedOut only at or after T
\* seconds, and collect_feedback then returns an empty sequence.
C7_Timeout ==
    (dialog_state # "none" /\ timeout_seconds > 0) =>
        /\ (dialog_state = "Open" =>
                /\ clock <= timeout_seconds
                /\ timeout_timer = "active")
        /\ (dialog_state = "TimedOut" =>
                /\ clock >= timeout_seconds
                /\ timeout_timer = "fired")
        /\ (Returned /\ dialog_state = "TimedOut" =>
                ~ret.none /\ ret.items = <<>>)

\* C7's case: a dialog holding a text and an image timed out and
\* collect_feedback returned nothing.
C7_Witness ==
    /\ Returned
    /\ dialog_state = "TimedOut"
    /\ Strip(text) = <<104, 105, 32, 33>>
    /\ selected_images_data # <<>>
    /\ ret.items = <<>>

\* C8: after a submit, the payload of every image record returned decodes
\* to the bytes of the listed image that record stands for (the one of its
\* filename), and for an image added from a file those are exactly the
\* bytes read from the file: nothing re-encodes them on the way.
C8_RoundTrip ==
    (Returned /\ dialog_state = "Submitted") =>
        \A k \in 1..Len(ImageItems(ret.items)) :
            LET image == ImageItems(ret.items)[k]
            IN  /\ \E n \in 1..Len(selected_images_data) :
                       /\ selected_images_data[n].filename = image.filename
                       /\ selected_images_data[n].data = B64Decode(image.base64_data)
                /\ \A p \in PickerPaths :
                       (ReadFile(p).ok /\ image.filename = PathName(p))
                           => B64Decode(image.base64_data) = ReadFile(p).data

\* C8's case: the JPEG file (three bytes, no padding) and the file whose
\* five bytes need padding were added and submitted, and both payloads
\* decode to the files' bytes.
C8_Witness ==
    /\ Returned
    /\ dialog_state = "Submitted"
    /\ Len(selected_images_data) = 2
    /\ selected_images_data[1].filename = PathName(PathRaw)
    /\ selected_images_data[2].filename = PathName(PathJpeg)
    /\ Len(ImageItems(ret.items)) = 2
    /\ B64Decode(ImageItems(ret.items)[1].base64_data) = BytesRaw
    /\ B64Decode(ImageItems(ret.items)[2].base64_data) = BytesJpeg

\* pick_image acquired an image: a chosen file that can be read and that
\* PIL decodes, or an image on the clipboard.
Acquired(a) ==
    \/ /\ a.clicked = "file"
       /\ a.file_path # <<>>
       /\ ReadFile(a.file_path).ok
       /\ PilOpen(ReadFile(a.file_path).data).ok
    \/ /\ a.clicked = "paste"
       /\ a.clip = "image"

\* pick_image chose a file that cannot be read or decoded.
LoadFailed(a) ==
    /\ a.clicked = "file"
    /\ a.file_path # <<>>
    /\ ~Acquired(a)

InfoClass(v) ==
    {c \in {"info", "not_found", "processing_error"} :
        \/ c = "info" /\ StartsWith(v, S_ImageFormat)
        \/ c = "not_found" /\ StartsWith(v, S_NotFound)
        \/ c = "processing_error" /\ StartsWith(v, S_Processing)}

\* C10: get_image_info raises nothing. For a path with no file it returns
\* a "not found" string, for a path that cannot be read or decoded a
\* "processing error" string, for an image a string with the decoded format
\* and both pixel dimensions; the string's prefix tells the three apart.
C10_ImageInfo ==
    ret.tool = "get_image_info" =>
        LET f == ReadFile(args.image_path)
            v == ret.value
        IN  /\ ~ret.raised
            /\ IF ~f.ok /\ f.exc = "FileNotFoundError"
               THEN /\ InfoClass(v) = {"not_found"}
                    /\ Contains(v, args.image_path)
               ELSE IF ~f.ok \/ ~PilOpen(f.data).ok
               THEN /\ InfoClass(v) = {"processing_error"}
                    /\ Contains(v, args.image_path)
               ELSE /\ InfoClass(v) = {"info"}
                    /\ PilOpen(f.data).has_format => Contains(v, PilOpen(f.data).format)
                    /\ Contains(v, IntToStr(PilOpen(f.data).w))
                    /\ Contains(v, IntToStr(PilOpen(f.data).h))

\* C10's case: the PNG file of 10 x 20 pixels is reported as
\* "Image format: PNG, size: (10, 20)".
C10_Witness ==
    /\ ret.tool = "get_image_info"
    /\ args.image_path = PathPng
    /\ ret.value = S_ImageFormat \o S_PNG \o S_Size
                   \o <<40, 49, 48, 44, 32, 50, 48, 41>>

\* C11: after a submit, whatever additions, removals and clearings came
\* before it, every image record returned has a non-empty payload that
\* decodes to non-empty bytes and a non-empty format label without capital
\* letters; the label is "png" where the decoder names no format for those
\* bytes.
C11_ImageItemsWellFormed ==
    (Returned /\ dialog_state = "Submitted") =>
        \A k \in 1..Len(ImageItems(ret.items)) :
            LET image == ImageItems(ret.items)[k]
                bytes == B64Decode(image.base64_data)
            IN  /\ image.base64_data # <<>>
                /\ bytes # <<>>
                /\ image.format # <<>>
                /\ \A i \in 1..Len(image.format) : image.format[i] \notin 65..90
                /\ PilOpen(bytes).ok
                /\ (~PilOpen(bytes).has_format => image.format = S_png)
                /\ (PilOpen(bytes).has_format
                        => Len(image.format) = Len(PilOpen(bytes).format))

\* C11's case: after a removal, the image whose decoder names no format
\* and the JPEG were submitted, and came back labelled "png" and "jpeg".
C11_Witness ==
    /\ Returned
    /\ dialog_state = "Submitted"
    /\ last.op = "remove"
    /\ Len(ImageItems(ret.items)) = 2
    /\ B64Decode(ImageItems(ret.items)[1].base64_data) = BytesRaw
    /\ ImageItems(ret.items)[1].format = S_png
    /\ ImageItems(ret.items)[2].format = <<106, 112, 101, 103>>

\* The terminal states of a dialog.
Terminal == {"Submitted", "Cancelled", "TimedOut"}

C13_NoMutationAfterTerminal ==
    [][(dialog_state \in Terminal /\ dialog_state' # "none")
           => selected_images_data' = selected_images_data]_vars
====
